---- MODULE Spec2Model ----
(***************************************************************************)
(* A model of the request engine of apivuln:                               *)
(*   - Executor            (ql/src/exec/mod.rs)                            *)
(*   - Http1Runner         (src/exec/http1.rs)                             *)
(*   - compute_header      (src/exec/http1.rs)                             *)
(* Each component has its own specification over its own variables; the    *)
(* variables of the other components stay at their initial values.         *)
(*                                                                         *)
(* Conventions.  An Option<T> is a sequence of length at most one:         *)
(* None is <<>> and Some(x) is <<x>>.  A byte is a one-token string and a  *)
(* byte buffer is a sequence of bytes.                                     *)
(***************************************************************************)
EXTENDS Integers, Sequences, FiniteSets, TLC

VARIABLES
    \* ---- Executor (ql/src/exec/mod.rs) ----
    plan,       \* Executor.plan.steps: the steps, each [name, kind]
    current,    \* Executor.current: Option<usize>, a 0-based cursor
    outputs,    \* Executor.outputs: HashMap from step name to StepOutput
    running,    \* the step whose execute() future next() is awaiting (Option)
    history,    \* what each call of next() did and returned, oldest first
    \* ---- compute_header (src/exec/http1.rs) ----
    hplan,      \* the Http1PlanOutput handed to compute_header
    hbuf,       \* Option: the buffer compute_header returned for hplan
    \* ---- Http1Runner (src/exec/http1.rs) ----
    h1,         \* the Http1Runner value: its fields, and the transport it owns
    task,       \* the async fn of the runner in flight (start / execute) and its position
    now,        \* the monotonic clock read by Instant::now()
    last,       \* Option: the latest public operation that returned, and how
    result,     \* Option: the Http1Output that finish() returned
    panicked,   \* Option: the function that panicked
    polls,      \* poll_* calls made directly by the layer above
    \* ---- HttpRunner (src/exec/http.rs) ----
    http,       \* the HttpRunner value, the start() in flight and what was started
    \* ---- TLSRunner (src/exec/tls.rs) ----
    tls         \* the TLS runner's task, its thread, and a sibling task

execVars == <<plan, current, outputs, running, history>>
hdrVars == <<hplan, hbuf>>
h1Vars == <<h1, task, now, last, result, panicked, polls>>
httpVars == <<http>>
tlsVars == <<tls>>
vars == <<plan, current, outputs, running, history, hplan, hbuf,
          h1, task, now, last, result, panicked, polls, http, tls>>

None == <<>>
Some(x) == <<x>>
IsSome(o) == o # <<>>
Unwrap(o) == o[1]

(***************************************************************************)
(* Bounds of the model.                                                    *)
(***************************************************************************)
MaxSteps == 3       \* longest plan explored
MaxCalls == 5       \* calls of Executor.next() explored in one behaviour

(***************************************************************************)
(*                              EXECUTOR                                   *)
(***************************************************************************)
StepNames == {"a", "b"}
StepKinds == {"HTTP", "TCP"}
Steps == [name : {None} \cup {Some(n) : n \in StepNames}, kind : StepKinds]

\* The plans explored: every sequence of at most MaxSteps steps.
Plans == UNION {[1..n -> Steps] : n \in 0..MaxSteps}

\* What http::execute / tcp::execute hand back to next(): Ok(out) or Err(e).
\* An Ok output may itself carry errors.
ExecuteResults == {"ok", "ok_with_errors", "err"}

\* The StepOutput produced by the call number `run` of next() for 0-based step i.
StepOutput(i, res, run) ==
    [kind |-> plan[i + 1].kind, step |-> i, errors |-> (res = "ok_with_errors"),
     run |-> run]

\* A variant of the insertion below that keeps the value of an existing key.
InsertIfAbsent(map, k, v) ==
    [n \in DOMAIN map \cup {k} |-> IF n \in DOMAIN map THEN map[n] ELSE v]

\* HashMap::insert: a new key is added, an existing key's value is replaced.
Insert(map, k, v) == [n \in DOMAIN map \cup {k} |-> IF n = k THEN v ELSE map[n]]

IdleHeader == hplan = None /\ hbuf = None

IdleStack == http = None /\ tls = None

IdleRunner ==
    /\ h1 = None /\ task = None /\ now = 0 /\ last = None
    /\ result = None /\ panicked = None /\ polls = 0

\* Executor::new
ExecInit ==
    /\ plan \in Plans
    /\ current = IF Len(plan) > 0 THEN Some(0) ELSE None
    /\ outputs = <<>>
    /\ running = None
    /\ history = <<>>
    /\ IdleHeader
    /\ IdleRunner
    /\ IdleStack

ExecPanicked == history # <<>> /\ history[Len(history)].tag = "panic"

\* One entry of the call history: what the call returned (tag, out), the step it
\* executed, and the cursor when it was called and when it returned.
Call(tag, step, out, after) ==
    [tag |-> tag, step |-> step, out |-> out, cursor |-> current, after |-> after]

\* Executor::next up to the await of the step's execute():
\* no cursor -> Err(Done); plan.steps[*current] out of bounds -> panic;
\* otherwise the step's execution begins.
NextBegin ==
    /\ running = None
    /\ ~ExecPanicked
    /\ Len(history) < MaxCalls
    /\ IF current = None
         THEN /\ history' = Append(history, Call("done", None, None, current))
              /\ UNCHANGED <<current, outputs, running>>
         ELSE IF Unwrap(current) >= Len(plan)
         THEN /\ history' = Append(history, Call("panic", None, None, current))
              /\ UNCHANGED <<current, outputs, running>>
         ELSE /\ running' = current
              /\ UNCHANGED <<current, outputs, history>>
    /\ UNCHANGED <<plan, hdrVars, h1Vars, httpVars, tlsVars>>

\* A variant of the return below in which next() returns while the step's
\* execution is still in progress.
NextEndDetached(res) ==
    /\ running # None
    /\ LET i == Unwrap(running)
           out == StepOutput(i, res, Len(history) + 1)
       IN  history' = Append(history, Call("ok", Some(i), Some(out), current))
    /\ UNCHANGED <<current, outputs, running>>
    /\ UNCHANGED <<plan, hdrVars, h1Vars, httpVars, tlsVars>>

\* Executor::next from the completion of execute() to its return.
NextEnd(res) ==
    /\ running # None
    /\ LET i == Unwrap(running)
           step == plan[i + 1]
           out == StepOutput(i, res, Len(history) + 1)
       IN IF res = "err"
            \* `?` returns the error: nothing stored, cursor untouched
            THEN /\ history' = Append(history, Call("err", Some(i), None, current))
                 /\ UNCHANGED <<current, outputs>>
            ELSE IF step.name = None
            \* let-else: an anonymous step returns before insert and advance
            THEN /\ history' = Append(history, Call("ok", Some(i), Some(out), current))
                 /\ UNCHANGED <<current, outputs>>
            ELSE /\ outputs' = Insert(outputs, Unwrap(step.name), out)
                 /\ current' = Some(Unwrap(current) + 1)
                 /\ history' = Append(history, Call("ok", Some(i), Some(out), current'))
    /\ running' = None
    /\ UNCHANGED <<plan, hdrVars, h1Vars, httpVars, tlsVars>>

ExecNext ==
    \/ NextBegin
    \/ \E res \in ExecuteResults : NextEnd(res)

SpecExec == ExecInit /\ [][ExecNext]_vars

\* The caller keeps calling next(), and every step execution terminates.
FairSpecExec == SpecExec /\ WF_vars(ExecNext)

(***************************************************************************)
(*                        HTTP/1 REQUEST HEADER                            *)
(***************************************************************************)
MaxHeaders == 2     \* most user headers in a plan handed to compute_header

SP == " "
CR == "CR"
LF == "LF"
CRLF == <<CR, LF>>

\* Byte strings used in the plans explored.
bGET == <<"G", "E", "T">>
bPOST == <<"P", "O", "S", "T">>
bHTTP11 == <<"H", "T", "T", "P", "/", "1", ".", "1">>
bHost == <<"H", "o", "s", "t">>
bContentLength == <<"C", "o", "n", "t", "e", "n", "t", "-", "L", "e", "n", "g", "t", "h">>
bcontentlength == <<"c", "o", "n", "t", "e", "n", "t", "-", "l", "e", "n", "g", "t", "h">>
bBody == <<"x", "=", "1">>

AddContentLength == {"never", "always", "auto"}

UserHeaders == {<<bHost, <<"h">>>>, <<bContentLength, <<"3">>>>,
                <<bcontentlength, <<"3">>>>, <<<<"X">>, <<>>>>}

\* The Http1PlanOutput values handed to compute_header.
HeaderPlans ==
    [method : {None, Some(bGET), Some(bPOST)},
     path : {<<"/">>, <<"/", "a">>},
     query : {None, Some(<<"q">>)},
     version_string : {None, Some(bHTTP11)},
     add_content_length : AddContentLength,
     headers : UNION {[1..n -> UserHeaders] : n \in 0..MaxHeaders},
     body : {<<>>, bBody}]

\* A variant of the loop below that keeps one of two equal adjacent headers.
RECURSIVE header_lines_dedup(_)
header_lines_dedup(hs) ==
    IF hs = <<>> THEN <<>>
    ELSE (IF Len(hs) >= 2 /\ hs[1] = hs[2] THEN <<>>
          ELSE hs[1][1] \o <<":", SP>> \o hs[1][2] \o CRLF)
         \o header_lines_dedup(Tail(hs))

\* for (k, v) in &plan.headers { k ": " v "\r\n" }
RECURSIVE header_lines(_)
header_lines(hs) ==
    IF hs = <<>> THEN <<>>
    ELSE hs[1][1] \o <<":", SP>> \o hs[1][2] \o CRLF \o header_lines(Tail(hs))

\* Http1Runner::compute_header: the bytes put into the buffer, in order.
compute_header(p) ==
       (IF p.method # None THEN Unwrap(p.method) ELSE <<>>)
    \o <<SP>>
    \o p.path
    \o (IF p.query # None THEN <<"?">> \o Unwrap(p.query) ELSE <<>>)
    \o <<SP>>
    \o (IF p.version_string # None THEN Unwrap(p.version_string) ELSE <<>>)
    \o CRLF
    \o header_lines(p.headers)
    \o CRLF

IdleExecutor ==
    plan = <<>> /\ current = None /\ outputs = <<>> /\ running = None /\ history = <<>>

HeaderInit ==
    /\ hplan \in {Some(p) : p \in HeaderPlans}
    /\ hbuf = None
    /\ IdleExecutor
    /\ IdleRunner
    /\ IdleStack

\* Http1Runner::new builds the header of its plan.
ComputeHeader ==
    /\ hbuf = None
    /\ hbuf' = Some(compute_header(Unwrap(hplan)))
    /\ UNCHANGED <<hplan, execVars, h1Vars, httpVars, tlsVars>>

HeaderNext == ComputeHeader

SpecHeader == HeaderInit /\ [][HeaderNext]_vars

(***************************************************************************)
(* Request header: the claims.                                             *)
(***************************************************************************)
ascii_lower(b) ==
    CASE b = "C" -> "c" [] b = "L" -> "l" [] b = "H" -> "h" [] b = "X" -> "x"
      [] b = "G" -> "g" [] b = "E" -> "e" [] b = "T" -> "t" [] b = "P" -> "p"
      [] b = "O" -> "o" [] b = "S" -> "s" [] OTHER -> b
Lower(bs) == [i \in 1..Len(bs) |-> ascii_lower(bs[i])]

\* The lines of a buffer: the byte strings that CRLF ends, in order.
RECURSIVE LinesFrom(_, _)
LinesFrom(buf, acc) ==
    IF buf = <<>> THEN (IF acc = <<>> THEN <<>> ELSE <<acc>>)
    ELSE IF Len(buf) >= 2 /\ buf[1] = CR /\ buf[2] = LF
         THEN <<acc>> \o LinesFrom(SubSeq(buf, 3, Len(buf)), <<>>)
         ELSE LinesFrom(Tail(buf), Append(acc, buf[1]))
Lines(buf) == LinesFrom(buf, <<>>)

\* The field name of a header line: the bytes before its first ':'.
RECURSIVE FieldName(_)
FieldName(line) ==
    IF line = <<>> \/ line[1] = ":" THEN <<>> ELSE <<line[1]>> \o FieldName(Tail(line))

IsContentLengthLine(line) ==
    /\ \E i \in 1..Len(line) : line[i] = ":"
    /\ Lower(FieldName(line)) = bcontentlength

\* The Content-Length lines among the header lines (the lines after the request line).
ContentLengthLines(buf) ==
    Cardinality({i \in 2..Len(Lines(buf)) : IsContentLengthLine(Lines(buf)[i])})

UserContentLength(p) ==
    Cardinality({i \in 1..Len(p.headers) : Lower(p.headers[i][1]) = bcontentlength})

\* The built header has a Content-Length line that the user's headers do not account for.
EmitsContentLength(p, buf) == ContentLengthLines(buf) > UserContentLength(p)

\* C8: the header built for a plan has a Content-Length line added according
\* to the policy: auto, iff the body is non-empty and no user header is named
\* content-length ignoring case; always, for every plan; never, for none.
C8_ContentLengthPolicy ==
    hbuf # None =>
        LET p == Unwrap(hplan)
            emitted == EmitsContentLength(p, Unwrap(hbuf))
        IN  CASE p.add_content_length = "auto" ->
                     (emitted <=> (p.body # <<>> /\ UserContentLength(p) = 0))
              [] p.add_content_length = "always" -> emitted
              [] p.add_content_length = "never" -> ~emitted

\* The request line the plan asks for, GET and HTTP/1.1 standing in for a
\* method or version string the plan does not give.
RequestLine(p) ==
       (IF p.method # None THEN Unwrap(p.method) ELSE bGET)
    \o <<SP>> \o p.path
    \o (IF p.query # None THEN <<"?">> \o Unwrap(p.query) ELSE <<>>)
    \o <<SP>>
    \o (IF p.version_string # None THEN Unwrap(p.version_string) ELSE bHTTP11)

\* C17: the first line of the buffer compute_header builds is
\* method SP path [?query] SP version, with GET for a missing method and
\* HTTP/1.1 for a missing version string.
C17_RequestLineDefaults ==
    hbuf # None => Lines(Unwrap(hbuf))[1] = RequestLine(Unwrap(hplan))

\* C18: after the request line the buffer holds one line name ": " value per
\* declared header, in the declared order with duplicates kept, and then a
\* single empty line (the terminating CRLF) and nothing more.
C18_HeaderLinesInOrder ==
    hbuf # None =>
        LET hs == Unwrap(hplan).headers
            ls == Lines(Unwrap(hbuf))
        IN  /\ Len(ls) = Len(hs) + 2
            /\ \A i \in 1..Len(hs) : ls[i + 1] = hs[i][1] \o <<":", SP>> \o hs[i][2]
            /\ ls[Len(ls)] = <<>>

C18_Witness ==
    /\ hbuf # None
    /\ Len(Unwrap(hplan).headers) = 2
    /\ Unwrap(hplan).headers[1] = Unwrap(hplan).headers[2]


(***************************************************************************)
(*                            HTTP/1 RUNNER                                *)
(***************************************************************************)
MaxTime == 1        \* ticks of the monotonic clock explored
MaxPolls == 2       \* poll_* calls the layer above makes directly
MaxChunk == 2       \* most bytes the transport hands over in one read
ReadCap == 2        \* room in the caller's ReadBuf

Min(a, b) == IF a <= b THEN a ELSE b
Take(bs, n) == SubSeq(bs, 1, Min(n, Len(bs)))
Drop(bs, n) == SubSeq(bs, Min(n, Len(bs)) + 1, Len(bs))

\* Instant - Instant (duration_since): saturates at zero.
Since(later, earlier) == IF later >= earlier THEN later - earlier ELSE 0

\* The plans the runner is driven with; their header is " / \r\n\r\n".
PauseLists == {<<>>, <<1>>}
RunnerPlans ==
    [method : {None}, path : {<<"/">>}, query : {None}, version_string : {None},
     add_content_length : {"never"}, headers : {<<>>},
     body : {<<>>, <<"x", "y">>},
     pause : [request_body : [end : PauseLists]]]

\* What the peer sends: a complete response header and one body byte, then EOF.
Responses == {<<"V", "2", "R", CR, LF, CR, LF, "b">>}

\* Http1Runner::new
new(p, incoming) ==
    [out |-> [plan |-> p, request |-> None, response |-> None, error |-> None,
              duration |-> 0,
              pause |-> [request_headers |-> [start |-> None, end |-> None]]],
     \* the plan new() was given, remembered for the claims
     plan0 |-> p,
     state |-> "Pending",
     header |-> compute_header(p),
     \* the start_time of the state's variants, kept once it has been stamped
     start_time |-> None,
     req_header_start_time |-> None,
     req_body_start_time |-> None,
     req_end_time |-> None,
     resp_start_time |-> None,
     resp_header_end_time |-> None,
     first_read |-> None,
     end_time |-> None,
     resp_header_buf |-> <<>>,
     req_body_buf |-> <<>>,
     resp_body_buf |-> <<>>,
     \* the transport inside the state: the bytes it accepted (wire; wire_body are
     \* those accepted in SendingBody), the bytes it will deliver and those it has
     \* delivered, whether it has reported the end of the stream, whether it has
     \* refused anything (an error, or a write of zero bytes), and the write
     \* pause groups its PauseStream holds
     transport |-> [wire |-> <<>>, wire_body |-> <<>>, incoming |-> incoming,
                    delivered |-> <<>>, eof |-> FALSE, failed |-> FALSE,
                    writes |-> <<>>]]

\* A PauseSpec: the pause point of the plan it carries, and its group offset.
PauseSpec(point, group_offset) == [plan |-> point, group_offset |-> group_offset]

Panic == [kind |-> "panic"]
Err(e) == [kind |-> "err", error |-> e]
Ok(n) == [kind |-> "ok", n |-> n]

\* What the transport may answer to a ready write of buf, to a flush or shutdown,
\* and to a read.  (Poll::Pending changes nothing and is left out.)
\* A write is refused (an error, or zero bytes), or accepts one byte or all of buf.
WriteResults(buf) == {Err("io")} \cup {Ok(n) : n \in {0, 1, Len(buf)}}
FlushResults == {Err("io"), Ok(0)}
ReadResults == {Err("io")} \cup {Ok(n) : n \in 1..MaxChunk}
ReadScripts == {<<a>> : a \in ReadResults} \cup {<<a, b>> : a, b \in ReadResults}

Sending(r) == r.state \in {"SendingHeader", "SendingBody"}

\* AsyncWrite::poll_write of Http1Runner, the transport answering res.
poll_write(r, buf, res, t) ==
    IF ~Sending(r) THEN [r |-> r, ret |-> Panic]
    ELSE LET tr == IF res.kind = "ok" /\ res.n > 0
                     THEN [r.transport EXCEPT
                             !.wire = @ \o Take(buf, res.n),
                             !.wire_body = IF r.state = "SendingBody"
                                             THEN @ \o Take(buf, res.n) ELSE @]
                     ELSE [r.transport EXCEPT !.failed = TRUE]
         IN  [r |-> [r EXCEPT
                       !.transport = tr,
                       !.req_body_start_time = IF @ = None THEN Some(t) ELSE @,
                       !.req_body_buf = @ \o buf],
              ret |-> res]

\* AsyncWrite::poll_flush
poll_flush(r, res) ==
    IF ~Sending(r) THEN [r |-> r, ret |-> Panic]
    ELSE [r |-> IF res.kind = "ok" THEN r ELSE [r EXCEPT !.transport.failed = TRUE],
          ret |-> res]

\* AsyncWrite::poll_shutdown
poll_shutdown(r, res, t) ==
    IF ~Sending(r) THEN [r |-> r, ret |-> Panic]
    ELSE [r |-> [r EXCEPT !.end_time = Some(t),
                          !.transport.failed = IF res.kind = "ok" THEN @ ELSE TRUE],
          ret |-> res]

\* Http1Runner::complete
complete(r, t) ==
    IF r.state = "Invalid" THEN [r |-> r, ret |-> Panic]
    ELSE IF r.state \in {"Complete", "Pending", "StartFailed"}
    THEN [r |-> [r EXCEPT !.state = "Complete"], ret |-> Ok(0)]
    ELSE
      LET end_time == IF r.end_time # None THEN Unwrap(r.end_time) ELSE t
          start_time == Unwrap(r.start_time)
          request ==
            IF r.out.request = None THEN None
            ELSE Some([Unwrap(r.out.request) EXCEPT
                   !.duration =
                       Since(IF r.req_end_time # None THEN Unwrap(r.req_end_time)
                                                      ELSE end_time, start_time),
                   !.body_duration =
                       IF r.req_body_start_time = None THEN None
                       ELSE Some(Since(IF r.resp_start_time # None
                                         THEN Unwrap(r.resp_start_time) ELSE end_time,
                                       Unwrap(r.req_body_start_time))),
                   !.time_to_first_byte =
                       IF r.req_header_start_time = None THEN None
                       ELSE Some(Since(Unwrap(r.req_header_start_time), start_time)),
                   !.body = r.req_body_buf])
          response ==
            IF r.out.response = None THEN None
            ELSE Some([Unwrap(r.out.response) EXCEPT
                   !.body = Some(r.resp_body_buf),
                   !.duration = Since(end_time, Unwrap(r.resp_start_time)),
                   !.header_duration =
                       IF r.resp_header_end_time = None THEN None
                       ELSE Some(Since(Unwrap(r.resp_header_end_time),
                                       Unwrap(r.resp_start_time)))])
      IN  IF r.out.response # None /\ r.resp_start_time = None
            \* expect("response start time should be recorded when response is set")
            THEN [r |-> [r EXCEPT !.state = "Invalid", !.out.request = request],
                  ret |-> Panic]
            ELSE [r |-> [r EXCEPT !.state = "Complete",
                                  !.out.request = request,
                                  !.out.response = response,
                                  !.out.duration = Since(end_time, start_time)],
                  ret |-> Ok(0)]


Pending == [kind |-> "pending"]
Data(bs) == [kind |-> "ok", n |-> Len(bs), data |-> bs]

\* httparse::Response::parse on the accumulated bytes.  The response is
\* "V" "2" "R" CRLF (version, code, reason), then the header block's CRLF:
\* a first byte that is no version is an error, the fields are set as far as
\* the bytes reach, and the header is complete at the first CRLF CRLF.
HeaderEnds(buf) ==
    {i \in 1..Len(buf) : i + 3 <= Len(buf) /\ SubSeq(buf, i, i + 3) = CRLF \o CRLF}
parse(buf) ==
    IF buf # <<>> /\ buf[1] # "V" THEN [status |-> "Err"]
    ELSE [status |-> IF HeaderEnds(buf) = {} THEN "Partial" ELSE "Complete",
          body_start |-> IF HeaderEnds(buf) = {} THEN 0
                         ELSE (CHOOSE i \in HeaderEnds(buf) :
                                 \A j \in HeaderEnds(buf) : i <= j) + 3,
          version |-> IF Len(buf) >= 1 THEN Some(1) ELSE None,
          code |-> IF Len(buf) >= 2 THEN Some(200) ELSE None,
          reason |-> IF \E i \in 1..Len(buf) : i < Len(buf) /\ SubSeq(buf, i, i + 1) = CRLF
                       THEN Some(<<"R">>) ELSE None]

\* Http1Runner::receive_header
receive_header(r, t) ==
    LET res == parse(r.resp_header_buf)
    IN  IF res.status = "Err" THEN [r |-> r, ret |-> Err("other")]
        ELSE IF r.first_read # None /\ r.resp_start_time = None
          \* expect("response start time should be set before header is processed")
          THEN [r |-> r, ret |-> Panic]
        ELSE
          LET response ==
                [protocol |-> res.version,
                 status_code |-> res.code,
                 headers |-> IF res.reason # None THEN Some(<<>>) ELSE None,
                 status_reason |-> res.reason,
                 body |-> None,
                 duration |-> 0,
                 header_duration |-> None,
                 time_to_first_byte |->
                     IF r.first_read = None THEN None
                     ELSE Some(Since(Unwrap(r.first_read), Unwrap(r.resp_start_time)))]
              r1 == [r EXCEPT !.out.response = Some(response)]
          IN  IF res.status = "Partial" THEN [r |-> r1, ret |-> Pending]
              ELSE IF r.state # "ReceivingHeader"
                \* panic!("header recieved in incorrect state")
                THEN [r |-> [r1 EXCEPT !.state = "Invalid"], ret |-> Panic]
                ELSE [r |-> [r1 EXCEPT
                               !.state = "ReceivingBody",
                               !.out.response =
                                   Some([response EXCEPT !.header_duration =
                                           Some(Since(t, Unwrap(r.start_time)))]),
                               !.resp_header_buf = <<>>],
                      ret |-> Data(Drop(r.resp_header_buf, res.body_start))]

\* The transport's poll_read into a buffer with room for cap bytes, answering rd:
\* Ok hands over at most rd.n of the bytes still to come, none at end of stream.
transport_read(r, cap, rd) ==
    IF rd.kind # "ok" THEN [r |-> [r EXCEPT !.transport.failed = TRUE], filled |-> <<>>]
    ELSE LET filled == Take(r.transport.incoming, Min(rd.n, cap))
         IN  [r |-> [r EXCEPT !.transport.incoming = Drop(@, Min(rd.n, cap)),
                              !.transport.delivered = @ \o filled,
                              !.transport.eof = (@ \/ filled = <<>>)],
              filled |-> filled]

\* The loop of poll_read in its ReceivingBody arm; script holds the transport's
\* answers to the successive reads (when it runs out the transport is pending).
RECURSIVE read_loop(_, _, _, _)
read_loop(r, cap, script, t) ==
    IF script = <<>> THEN [r |-> r, ret |-> Pending]
    ELSE
      LET rd == Head(script)
          got == transport_read(r, cap + 1, rd)
          r1 == [got.r EXCEPT !.resp_header_buf = @ \o got.filled]
      IN  IF rd.kind = "err" THEN [r |-> r1, ret |-> rd]
          ELSE IF got.filled = <<>> THEN [r |-> r1, ret |-> Err("UnexpectedEof")]
          ELSE
            LET r2 == [r1 EXCEPT !.first_read = IF @ = None THEN Some(t) ELSE @]
                hdr == receive_header(r2, t)
            IN  IF hdr.ret.kind = "pending" THEN read_loop(hdr.r, cap, Tail(script), t)
                ELSE IF hdr.ret.kind = "ok"
                  THEN IF hdr.ret.n > cap
                         \* buf.put(remaining) with more bytes than buf has room for
                         THEN [r |-> hdr.r, ret |-> Panic]
                         ELSE [r |-> [hdr.r EXCEPT
                                        !.resp_header_end_time = Some(t),
                                        !.resp_body_buf = @ \o hdr.ret.data],
                               ret |-> hdr.ret]
                  ELSE hdr

\* A variant of poll_read below that leaves resp_start_time as it finds it.
poll_read_unstamped(r, cap, script, t) ==
    LET held == r.state
        taken == [r EXCEPT !.state = "Invalid"]
        put_back(res) == [r |-> [res.r EXCEPT !.state = held], ret |-> res.ret]
    IN  IF held = "ReceivingHeader"
          THEN LET got == transport_read(taken, cap, Head(script))
               IN  put_back([r |-> [got.r EXCEPT !.resp_body_buf = @ \o got.filled],
                             ret |-> IF Head(script).kind = "ok"
                                       THEN Data(got.filled) ELSE Head(script)])
        ELSE IF held = "ReceivingBody"
          THEN put_back(read_loop(taken, cap, script, t))
        ELSE put_back([r |-> taken, ret |-> Panic])

\* AsyncRead::poll_read of Http1Runner.  The state is taken out (Invalid is left
\* in its place) and a scope guard puts it back when poll_read is left, also by
\* a panic.
poll_read(r, cap, script, t) ==
    LET held == r.state
        taken == [r EXCEPT !.state = "Invalid"]
        put_back(res) == [r |-> [res.r EXCEPT !.state = held], ret |-> res.ret]
    IN  IF held = "ReceivingHeader"
          THEN LET got == transport_read(taken, cap, Head(script))
               IN  put_back([r |-> [got.r EXCEPT !.resp_body_buf = @ \o got.filled],
                             ret |-> IF Head(script).kind = "ok"
                                       THEN Data(got.filled) ELSE Head(script)])
        ELSE IF held = "ReceivingBody"
          THEN put_back(read_loop(
                   [taken EXCEPT !.resp_start_time = IF @ = None THEN Some(t) ELSE @],
                   cap, script, t))
        ELSE put_back([r |-> taken, ret |-> Panic])


IdleOthers == IdleExecutor /\ IdleHeader /\ IdleStack

H1Init ==
    /\ h1 \in {new(p, inc) : p \in RunnerPlans, inc \in Responses}
    /\ task = None
    /\ now = 0
    /\ last = None
    /\ result = None
    /\ panicked = None
    /\ polls = 0
    /\ IdleOthers

\* No async fn of the runner is in flight and the runner has not been consumed.
Idle == task = None /\ result = None /\ panicked = None
At(pc) == task # None /\ panicked = None /\ Unwrap(task).pc = pc

Error(kind) == [kind |-> kind]
Returned(op, ret) == Some([op |-> op, ret |-> ret])

\* start() returns Err(e), leaving the runner as r: to its caller, or to execute(),
\* which records "send headers" and returns.
StartReturnsErr(op, r, e) ==
    /\ h1' = IF op = "execute" THEN [r EXCEPT !.out.error = Some(Error("send headers"))]
                               ELSE r
    /\ last' = Returned(op, IF op = "execute" THEN Ok(0) ELSE Err(e))
    /\ task' = None

\* execute() records the error of a phase after start and returns.
ExecuteFails(r, e) ==
    /\ h1' = [r EXCEPT !.out.error = Some(Error(e))]
    /\ last' = Returned("execute", Ok(0))
    /\ task' = None

\* Http1Runner::start up to the await of transport.start: called by the layer
\* above (op = "start") or by execute() with Some(plan.body.len()).
Enter(op, size_hint) ==
    /\ Idle
    /\ IF h1.state # "Pending"
         THEN StartReturnsErr(op, [h1 EXCEPT !.state = "Invalid"], "invalid state")
         ELSE /\ h1' = [h1 EXCEPT !.state = "Invalid"]
              /\ task' = Some([op |-> op, pc |-> "transport", size_hint |-> size_hint,
                               header |-> h1.header, body |-> <<>>, rem |-> <<>>])
              /\ last' = last
    /\ UNCHANGED <<now, result, panicked, polls, execVars, hdrVars, httpVars, tlsVars>>

Start(size_hint) == Enter("start", size_hint)
Execute == Enter("execute", Some(Len(h1.out.plan.body)))

\* start() when transport.start(..) fails: the error is recorded, the state
\* becomes StartFailed and complete() is run.  A variant that forgets the
\* error comes first.
start_failed_unrecorded(r, t) ==
    complete([r EXCEPT !.state = "StartFailed", !.transport.failed = TRUE], t).r
start_failed(r, t) ==
    complete([r EXCEPT !.out.error = Some(Error("transport start")),
                       !.state = "StartFailed",
                       !.transport.failed = TRUE], t).r

\* start(): transport.start(..) completes.
TransportStart(ok) ==
    /\ At("transport")
    /\ IF ok
         THEN /\ h1' = [h1 EXCEPT !.state = "SendingHeader",
                                  !.start_time = Some(now),
                                  !.transport.writes =
                                      <<PauseSpec("request_headers.start", 0),
                                        PauseSpec("request_headers.end", Len(h1.header))>>,
                                  !.req_header_start_time = Some(now)]
              /\ task' = Some([Unwrap(task) EXCEPT !.pc = "header"])
              /\ last' = last
         ELSE StartReturnsErr(Unwrap(task).op, start_failed(h1, now), "transport start")
    /\ UNCHANGED <<now, result, panicked, polls, execVars, hdrVars, httpVars, tlsVars>>

\* The request output start() installs once the header has been written.
RequestOutput(p) ==
    [url |-> [path |-> p.path, query |-> p.query], headers |-> p.headers,
     method |-> p.method, version_string |-> p.version_string, body |-> <<>>,
     duration |-> 0, body_duration |-> None, time_to_first_byte |-> None]

\* start(): the write pause groups handed to transport.reset once the header is
\* written.  A variant that installs both groups whatever the hint comes first.
body_write_pauses_both(size_hint) ==
    <<PauseSpec("request_body.start", 0),
      PauseSpec("request_body.end", IF size_hint # None THEN Unwrap(size_hint) ELSE 0)>>
body_write_pauses(size_hint) ==
    IF size_hint # None
      THEN <<PauseSpec("request_body.start", 0),
             PauseSpec("request_body.end", Unwrap(size_hint))>>
      ELSE <<PauseSpec("request_body.start", 0)>>

\* PauseStream::reset on the write side: the pause groups are replaced and the
\* observations of the replaced groups are returned, one per group in the
\* order the groups were given.
reset(tr, new_writes) ==
    [transport |-> [tr EXCEPT !.writes = new_writes],
     writes |-> [i \in 1..Len(tr.writes) |->
                   [plan |-> tr.writes[i].plan, offset |-> tr.writes[i].group_offset]]]

\* A variant of the storing below that pops the start observation first.
store_header_pauses_swapped(pause, writes) ==
    LET n == Len(writes)
    IN  [pause EXCEPT
           !.request_headers.start = IF n >= 1 THEN Some(writes[n]) ELSE @,
           !.request_headers.end = IF n >= 2 THEN Some(writes[n - 1]) ELSE @]

\* start(): writes.pop() goes to request_headers.end, the next writes.pop() to
\* request_headers.start.
store_header_pauses(pause, writes) ==
    LET n == Len(writes)
    IN  [pause EXCEPT
           !.request_headers.end = IF n >= 1 THEN Some(writes[n]) ELSE @,
           !.request_headers.start = IF n >= 2 THEN Some(writes[n - 1]) ELSE @]

\* start(): one poll_write of write_all_buf(&mut header), and, once the buffer is
\* empty, the rest of start(); execute() then goes on to the body or the flush.
WriteHeader(res) ==
    /\ At("header")
    /\ LET tk == Unwrap(task)
           w == poll_write(h1, tk.header, res, now)
           rem == Drop(tk.header, res.n)
           flushed == [w.r EXCEPT !.state = "Invalid"]
           body == w.r.out.plan.body
           swapped == reset(flushed.transport, body_write_pauses(tk.size_hint))
           started == [flushed EXCEPT
                         !.state = "SendingBody",
                         !.transport = swapped.transport,
                         !.out.pause = store_header_pauses(@, swapped.writes),
                         !.out.request = Some(RequestOutput(w.r.out.plan))]
       IN  /\ res \in WriteResults(tk.header)
           /\ IF res.kind = "err" THEN StartReturnsErr(tk.op, w.r, "io")
              ELSE IF res.n = 0 THEN StartReturnsErr(tk.op, w.r, "WriteZero")
              ELSE IF rem # <<>>
                THEN /\ h1' = w.r
                     /\ task' = Some([tk EXCEPT !.header = rem])
                     /\ last' = last
              ELSE IF tk.size_hint = None /\ w.r.out.plan.pause.request_body.end # <<>>
                THEN StartReturnsErr(tk.op, flushed, "configuration")
              ELSE IF tk.op = "start"
                THEN /\ h1' = started
                     /\ task' = None
                     /\ last' = Returned("start", Ok(0))
              ELSE IF body # <<>>
                \* execute: std::mem::take(&mut self.out.plan.body)
                THEN /\ h1' = [started EXCEPT !.out.plan.body = <<>>]
                     /\ task' = Some([tk EXCEPT !.pc = "body", !.header = <<>>,
                                                !.body = body, !.rem = body])
                     /\ last' = last
                ELSE /\ h1' = started
                     /\ task' = Some([tk EXCEPT !.pc = "flush", !.header = <<>>])
                     /\ last' = last
    /\ UNCHANGED <<now, result, panicked, polls, execVars, hdrVars, httpVars, tlsVars>>

\* execute(): one poll_write of write_all(body); the body is put back into the
\* plan once all of it has been written.
WriteBody(res) ==
    /\ At("body")
    /\ LET tk == Unwrap(task)
           w == poll_write(h1, tk.rem, res, now)
           rem == Drop(tk.rem, res.n)
       IN  /\ res \in WriteResults(tk.rem)
           /\ IF res.kind = "err" THEN ExecuteFails(w.r, "io")
              ELSE IF res.n = 0 THEN ExecuteFails(w.r, "WriteZero")
              ELSE IF rem # <<>>
                THEN /\ h1' = w.r
                     /\ task' = Some([tk EXCEPT !.rem = rem])
                     /\ last' = last
                ELSE /\ h1' = [w.r EXCEPT !.out.plan.body = tk.body]
                     /\ task' = Some([tk EXCEPT !.pc = "flush", !.rem = <<>>])
                     /\ last' = last
    /\ UNCHANGED <<now, result, panicked, polls, execVars, hdrVars, httpVars, tlsVars>>

\* execute(): flush, then the response start time is stamped.
Flush(res) ==
    /\ At("flush")
    /\ LET f == poll_flush(h1, res)
       IN  IF res.kind = "err" THEN ExecuteFails(f.r, "io")
           ELSE /\ h1' = [f.r EXCEPT !.resp_start_time = Some(now)]
                /\ task' = Some([Unwrap(task) EXCEPT !.pc = "read"])
                /\ last' = last
    /\ UNCHANGED <<now, result, panicked, polls, execVars, hdrVars, httpVars, tlsVars>>

\* execute(): one poll_read of read_to_end(&mut response); a read of no bytes is
\* the end of the stream.
ReadToEnd(script) ==
    /\ At("read")
    /\ LET rd == poll_read(h1, ReadCap, script, now)
       IN  IF rd.ret.kind = "panic"
             THEN /\ h1' = rd.r
                  /\ panicked' = Some("poll_read")
                  /\ UNCHANGED <<task, last>>
           ELSE /\ panicked' = panicked
                /\ IF rd.ret.kind = "err" THEN ExecuteFails(rd.r, rd.ret.error)
                   ELSE IF rd.ret.kind = "ok" /\ rd.ret.n = 0
                     THEN /\ h1' = rd.r
                          /\ task' = None
                          /\ last' = Returned("execute", Ok(0))
                     ELSE /\ h1' = rd.r
                          /\ UNCHANGED <<task, last>>
    /\ UNCHANGED <<now, result, polls, execVars, hdrVars, httpVars, tlsVars>>

\* A poll_* call made by the layer above, which returned `got`.
Polled(op, got) ==
    /\ h1' = got.r
    /\ IF got.ret.kind = "panic"
         THEN panicked' = Some(op) /\ last' = last
         ELSE panicked' = panicked /\ last' = Returned(op, got.ret)
    /\ polls' = polls + 1
    /\ UNCHANGED <<task, now, result, execVars, hdrVars, httpVars, tlsVars>>

CallerBufs == {<<"x", "y">>}

PollWrite(buf, res) ==
    /\ Idle /\ polls < MaxPolls
    /\ res \in WriteResults(buf)
    /\ Polled("poll_write", poll_write(h1, buf, res, now))

PollFlush(res) ==
    /\ Idle /\ polls < MaxPolls
    /\ Polled("poll_flush", poll_flush(h1, res))

PollShutdown(res) ==
    /\ Idle /\ polls < MaxPolls
    /\ Polled("poll_shutdown", poll_shutdown(h1, res, now))

PollRead(script) ==
    /\ Idle /\ polls < MaxPolls
    /\ Polled("poll_read", poll_read(h1, ReadCap, script, now))

\* Http1Runner::finish
Finish ==
    /\ Idle
    /\ LET c == complete(h1, now)
       IN  /\ h1' = c.r
           /\ IF c.ret.kind = "panic"
                THEN panicked' = Some("complete") /\ UNCHANGED <<result, last>>
                ELSE /\ result' = Some(c.r.out)
                     /\ last' = Returned("finish", Ok(0))
                     /\ panicked' = panicked
    /\ UNCHANGED <<task, now, polls, execVars, hdrVars, httpVars, tlsVars>>

\* Time passes.  The runner first reads the clock when it enters SendingHeader
\* (start_time); time that passes before is not observed by it.
Tick ==
    /\ now < MaxTime
    /\ h1.start_time # None
    /\ result = None /\ panicked = None
    /\ now' = now + 1
    /\ UNCHANGED <<h1, task, last, result, panicked, polls, execVars, hdrVars, httpVars, tlsVars>>

\* The transport's answers to the reads of one poll_read: it is only polled in a
\* receiving state.
ScriptsFor(r) ==
    IF r.state \in {"ReceivingHeader", "ReceivingBody"} THEN ReadScripts ELSE {<<Ok(1)>>}

H1Next ==
    \/ \E sh \in {None} \cup {Some(Len(h1.out.plan.body))} : Start(sh)
    \/ Execute
    \/ \E ok \in BOOLEAN : TransportStart(ok)
    \/ \E res \in {Err("io")} \cup {Ok(n) : n \in 0..Len(h1.header)} : WriteHeader(res)
    \/ \E res \in WriteResults(<<"x", "y">>) : WriteBody(res)
    \/ \E res \in FlushResults : Flush(res)
    \/ \E script \in ScriptsFor(h1) : ReadToEnd(script)
    \/ \E buf \in CallerBufs, res \in WriteResults(<<"x", "y">>) : PollWrite(buf, res)
    \/ \E res \in FlushResults : PollFlush(res)
    \/ \E res \in FlushResults : PollShutdown(res)
    \/ \E script \in ScriptsFor(h1) : PollRead(script)
    \/ Finish
    \/ Tick

SpecHttp1 == H1Init /\ [][H1Next]_vars


(***************************************************************************)
(*                     HTTP/1 RUNNER: THE READ PATH                        *)
(* poll_read and receive_header on a runner that holds one of the two      *)
(* receiving variants of State.  start() and execute() construct neither   *)
(* variant, so the runner is given here as the variant's fields and the    *)
(* fields a completed start() leaves behind.                               *)
(***************************************************************************)
\* What the peer sends before it closes: a complete header and a body byte, a
\* header cut short, bytes that are no response, nothing.
RxResponses == Responses \cup {<<"V", "2">>, <<"H">>, <<>>}

RxPlan ==
    [method |-> None, path |-> <<"/">>, query |-> None, version_string |-> None,
     add_content_length |-> "never", headers |-> <<>>, body |-> <<>>,
     pause |-> [request_body |-> [end |-> <<>>]]]

\* A runner in State::ReceivingHeader or State::ReceivingBody { start_time,
\* transport }: the header was written at time 0; resp_start_time is set if
\* execute() stamped it, end_time if the layer above shut the write side down.
Receiving(state, incoming, resp_start_time, end_time) ==
    [new(RxPlan, incoming) EXCEPT
        !.state = state,
        !.start_time = Some(0),
        !.req_header_start_time = Some(0),
        !.req_body_start_time = Some(0),
        !.req_body_buf = compute_header(RxPlan),
        !.resp_start_time = resp_start_time,
        !.end_time = end_time,
        !.out.request = Some(RequestOutput(RxPlan)),
        !.out.pause.request_headers =
            [start |-> Some([plan |-> "request_headers.start", offset |-> 0]),
             end |-> Some([plan |-> "request_headers.end",
                           offset |-> Len(compute_header(RxPlan))])],
        !.transport.wire = compute_header(RxPlan),
        !.transport.writes = <<PauseSpec("request_body.start", 0),
                               PauseSpec("request_body.end", 0)>>]

RxInit ==
    /\ h1 \in {Receiving(st, inc, rs, et) :
                 st \in {"ReceivingHeader", "ReceivingBody"}, inc \in RxResponses,
                 rs \in {None, Some(0)}, et \in {None, Some(0)}}
    /\ task = None
    /\ now = 0
    /\ last = None
    /\ result = None
    /\ panicked = None
    /\ polls = 0
    /\ IdleOthers

RxNext ==
    \/ \E script \in ScriptsFor(h1) : PollRead(script)
    \/ Finish
    \/ Tick

SpecReceive == RxInit /\ [][RxNext]_vars


(***************************************************************************)
(* HTTP/1 runner: the claims.                                              *)
(***************************************************************************)
Executing == task # None /\ Unwrap(task).op = "execute"

\* C1: when the transport starts and accepts every write and flush, and the
\* peer delivers a complete response header and then EOF, execute() reaches the
\* response read in a receiving state: the read after the flush never ends in
\* the panic branch of poll_read.
C1_ExecuteReadsResponse ==
    (Executing /\ ~h1.transport.failed) => panicked = None

\* C2: after any public operation of the runner has returned, with success or
\* with an error and from whatever state it was called, the state is not Invalid.
C2_NeverInvalidAfterReturn ==
    (task = None /\ panicked = None) => h1.state # "Invalid"

\* C7: request.body in the output of finish() is exactly the bytes written
\* after the header phase (those the transport accepted in SendingBody), in
\* order, with none of the request-header bytes.
C7_RequestBodyIsBodyWritten ==
    (result # None /\ Unwrap(result).request # None) =>
        Unwrap(Unwrap(result).request).body = h1.transport.wire_body

\* C10: once start() has entered SendingHeader, the output of finish() has
\* request present, whatever fails afterwards.
C10_RequestPresentOnceSending ==
    (result # None /\ h1.start_time # None) => Unwrap(result).request # None

\* C14: when the lower transport fails to start, start() returns the error,
\* and the finish() that follows returns, with the transport, an output whose
\* request and response are absent and whose error carries the failure.
C14_TransportStartFailure ==
    [][/\ (At("transport") /\ Unwrap(task).op = "start" /\ h1'.transport.failed)
             => last' = Returned("start", Err("transport start"))
       /\ (/\ last = Returned("start", Err("transport start"))
           /\ result = None /\ panicked = None
           /\ (result' # None \/ panicked' = Some("complete")))
             => /\ result' # None
                /\ Unwrap(result').request = None
                /\ Unwrap(result').response = None
                /\ Unwrap(result').error = Some(Error("transport start"))
                /\ h1'.state = "Complete"]_vars

C14_Witness ==
    /\ result # None
    /\ last = Returned("finish", Ok(0))
    /\ h1.start_time = None
    /\ Unwrap(result).error = Some(Error("transport start"))

\* A call start(None) returns in this step.
StartNoneReturns ==
    /\ task # None /\ task' = None
    /\ Unwrap(task).op = "start" /\ Unwrap(task).size_hint = None

\* C15: start(None) on a plan whose request_body.end pause list is non-empty
\* fails, with a configuration error when nothing else failed before; on a
\* plan whose list is empty it succeeds (the transport refusing nothing) and
\* installs only the request_body.start pause group.
C15_SizeHintAndBodyEndPause ==
    [][StartNoneReturns =>
         IF h1.plan0.pause.request_body.end # <<>>
           THEN /\ Unwrap(last').ret.kind = "err"
                /\ ~h1'.transport.failed
                      => last' = Returned("start", Err("configuration"))
           ELSE ~h1'.transport.failed
                  => /\ last' = Returned("start", Ok(0))
                     /\ h1'.transport.writes = <<PauseSpec("request_body.start", 0)>>]_vars

C15_Witness ==
    /\ last = Returned("start", Ok(0))
    /\ h1.plan0.pause.request_body.end = <<>>
    /\ h1.transport.writes = <<PauseSpec("request_body.start", 0)>>

\* C16: after execute() has returned, whatever its outcome, out.plan.body is
\* the body of the plan the runner was constructed with.
C16_PlanBodyPreserved ==
    (task = None /\ last # None /\ Unwrap(last).op = "execute")
        => h1.out.plan.body = h1.plan0.body

\* C20: the output of finish() for a plan with an empty body, for which only
\* the header was written, reports no request.body_duration.
C20_BodyDurationOnlyIfBodySent ==
    (/\ result # None /\ Unwrap(result).request # None
     /\ h1.plan0.body = <<>> /\ polls = 0 /\ h1.transport.wire = h1.header)
        => Unwrap(Unwrap(result).request).body_duration = None

\* The write pause groups of the body phase are installed.
BodyPausesInstalled ==
    h1.transport.writes # <<>> /\ h1.transport.writes[1].plan = "request_body.start"

\* C27: while start() writes the header, from before its first byte, the
\* write pauses are those of the header phase (offsets 0 and len(header)); the
\* body-phase pauses are in place only once the whole header buffer has been
\* written, and then the observation at offset 0 is in
\* out.pause.request_headers.start and the one at len(header) in
\* out.pause.request_headers.end.
C27_HeaderPausesThenBodyPauses ==
    /\ At("header") =>
          h1.transport.writes = <<PauseSpec("request_headers.start", 0),
                                  PauseSpec("request_headers.end", Len(h1.header))>>
    /\ BodyPausesInstalled =>
          /\ Take(h1.transport.wire, Len(h1.header)) = h1.header
          /\ h1.out.pause.request_headers.start
                = Some([plan |-> "request_headers.start", offset |-> 0])
          /\ h1.out.pause.request_headers.end
                = Some([plan |-> "request_headers.end", offset |-> Len(h1.header)])

C27_Witness ==
    /\ BodyPausesInstalled
    /\ last = Returned("start", Ok(0))
    /\ Len(h1.transport.writes) = 2
    /\ h1.transport.writes[2] = PauseSpec("request_body.end", 2)

\* C25: the recorded request bytes are the bytes the transport accepted, each
\* once and in order: a poll_write completed with Ok(n) records the first n
\* bytes of the offered buffer, one completed with an error records nothing.
C25_RecordedBytesAreAccepted == h1.req_body_buf = h1.transport.wire

\* A phase of execute() fails in this step: the transport refuses an operation,
\* or the phase panics.
PhaseFails ==
    /\ Executing
    /\ \/ ~h1.transport.failed /\ h1'.transport.failed
       \/ panicked = None /\ panicked' # None

\* C26: as soon as a phase of execute() (start, body write, flush, response
\* read) fails, the error is recorded on the output and execute() returns, no
\* later phase touching the transport.
C26_ExecuteStopsAtFirstFailure ==
    [][PhaseFails => /\ panicked' = None
                     /\ task' = None
                     /\ last' = Returned("execute", Ok(0))
                     /\ h1'.out.error # None]_vars

(***************************************************************************)
(* HTTP/1 runner, read path: the claims.                                   *)
(***************************************************************************)
\* The bytes the transport has delivered hold a complete response header.
HeaderComplete(r) == parse(r.transport.delivered).status = "Complete"

\* The parser has returned Complete for the runner's accumulated bytes.
ParserReturnedComplete(r) ==
    r.resp_header_end_time # None \/ parse(r.resp_header_buf).status = "Complete"

BodyPart(r) == Drop(r.transport.delivered, parse(r.transport.delivered).body_start)

LeqIfPresent(a, b) == (a # None /\ b # None) => Unwrap(a) <= Unwrap(b)

Calls == 1..Len(history)
LastCall == history[Len(history)]

\* No step remains at cursor c: there is no cursor, or it is past the last step.
NoStepRemains(c) == c = None \/ Unwrap(c) >= Len(plan)

\* The cursor `after` is the cursor c moved on by one step (past the last step
\* it may also have been cleared).
AdvancedByOne(c, after) ==
    /\ c # None
    /\ \/ after = Some(Unwrap(c) + 1)
       \/ after = None /\ Unwrap(c) + 1 = Len(plan)

\* C3: a call of next() made when no step remains (the plan is empty, or the
\* cursor has moved past the last step) fails with error kind Done.
C3_DoneWhenNoStepRemains ==
    \A k \in Calls : NoStepRemains(history[k].cursor) => history[k].tag = "done"

\* C4: every call of next() that executes a step successfully, named or
\* anonymous, advances the cursor by exactly one, and no step is executed
\* successfully twice.
C4_SuccessAdvancesByOne ==
    /\ \A k \in Calls :
          (history[k].tag = "ok" /\ ~Unwrap(history[k].out).errors)
              => AdvancedByOne(history[k].cursor, history[k].after)
    /\ \A j, k \in Calls :
          (j < k /\ history[j].tag = "ok" /\ history[k].tag = "ok"
             /\ ~Unwrap(history[j].out).errors /\ ~Unwrap(history[k].out).errors)
              => history[j].step # history[k].step

\* A call whose step execution failed: execute() returned an error, or an
\* output carrying errors.
FailedCall(h) == h.tag = "err" \/ (h.tag = "ok" /\ Unwrap(h.out).errors)

\* C5: when the execution of a step fails, next() still returns the step's
\* output carrying the error, stores it in the outputs map when the step is
\* named, and advances the cursor.
C5_FailureYieldsOutputAndAdvances ==
    (history # <<>> /\ FailedCall(LastCall)) =>
        /\ LastCall.tag = "ok"
        /\ Unwrap(LastCall.out).errors
        /\ AdvancedByOne(LastCall.cursor, LastCall.after)
        /\ LET name == plan[Unwrap(LastCall.step) + 1].name
           IN  name # None =>
                 /\ Unwrap(name) \in DOMAIN outputs
                 /\ outputs[Unwrap(name)] = Unwrap(LastCall.out)

\* C6: a caller that keeps calling next() on a finite plan whose step
\* executions all terminate eventually receives the Done error (within the
\* calls the model explores).
C6_EventuallyDone ==
    <>((history # <<>> /\ LastCall.tag = "done") \/ Len(history) = MaxCalls)

\* The steps whose execution has run, successfully or not.
ExecutedSteps == {Unwrap(history[k].step) : k \in {j \in Calls : history[j].step # None}}
NamedExecuted == {i \in ExecutedSteps : plan[i + 1].name # None}
\* The latest call that executed a step named n.
LatestCallFor(n) ==
    LET ks == {k \in Calls : history[k].step # None
                             /\ plan[Unwrap(history[k].step) + 1].name = Some(n)}
    IN  CHOOSE k \in ks : \A j \in ks : j <= k

\* C9: between calls of next(), the outputs map has an entry for exactly the
\* names of the named steps executed so far, none for anonymous steps, and
\* each entry equals the output next() returned for that step.
C9_OutputsAreNamedExecuted ==
    running = None =>
        /\ DOMAIN outputs = {Unwrap(plan[i + 1].name) : i \in NamedExecuted}
        /\ \A n \in DOMAIN outputs : history[LatestCallFor(n)].out = Some(outputs[n])

\* C21: steps run strictly one after another: a step's execution begins only
\* while no step is in progress, and when the call of next() that executed a
\* step returns, that step is no longer in progress.
C21_StepsRunOneAtATime ==
    [][/\ (running' # None /\ running' # running) => running = None
       /\ history' # history
             => /\ running' = None
                /\ history'[Len(history')].step # None => history'[Len(history')].step = running
                /\ \A k \in Calls : history'[k] = history[k]]_vars

C21_Witness ==
    /\ Len(history) >= 2
    /\ history[1].tag = "ok" /\ history[1].step = Some(0)
    /\ history[2].tag = "ok" /\ history[2].step = Some(1)

\* The calls of next() that executed a step named n and returned its output.
OkCallsFor(n) ==
    {k \in Calls : history[k].tag = "ok"
                   /\ plan[Unwrap(history[k].step) + 1].name = Some(n)}
\* Two different steps named n have been executed.
TwoStepsNamed(n) ==
    \E j, k \in OkCallsFor(n) : history[j].step # history[k].step

\* C28: when two named steps carry the same name, after both have been
\* executed the outputs map holds one entry under that name, the output of the later
\* step: the earlier output is overwritten and no error is raised.
C28_DuplicateNameOverwrites ==
    running = None =>
        \A n \in StepNames :
            TwoStepsNamed(n) =>
                /\ n \in DOMAIN outputs
                /\ LET k == CHOOSE k \in OkCallsFor(n) : \A j \in OkCallsFor(n) : j <= k
                   IN  outputs[n] = Unwrap(history[k].out)

C28_Witness == running = None /\ \E n \in StepNames : TwoStepsNamed(n)


(***************************************************************************)
(*                             HTTP RUNNER                                 *)
(* HttpRunner of src/exec/http.rs: the stack of transports it builds and   *)
(* starts.  The runners it starts are seen from outside: each start        *)
(* succeeds or fails.                                                      *)
(***************************************************************************)
MaxOps == 3         \* calls of start() and execute() explored on one HttpRunner

Schemes == {"http", "https"}

\* HttpRunner::new: RawTcp and Tcp are pushed for every URL, Tls for https.
HttpNew(scheme) ==
    [scheme |-> scheme,
     state |-> "Pending",
     \* the transports held by State::Pending
     transports |-> <<"RawTcp", "Tcp">> \o (IF scheme = "https" THEN <<"Tls">> ELSE <<>>),
     \* the start() in flight: the transports still to start, and `transport`
     call |-> None,
     \* every start made on a lower runner: which, with what inner, and how it ended
     log |-> <<>>,
     \* what each public call returned
     returns |-> <<>>]

HttpInit ==
    /\ http \in {HttpNew(sc) : sc \in Schemes}
    /\ tls = None
    /\ IdleExecutor /\ IdleHeader /\ IdleRunner

HttpIdle == http.call = None /\ Len(http.returns) < MaxOps

HttpReturn(r, op, ret) ==
    [r EXCEPT !.returns = Append(@, [op |-> op, ret |-> ret]), !.call = None]

\* A variant of the entry of start() below that leaves Invalid behind when the
\* runner is not Pending.
HttpStartLeavingInvalid ==
    /\ HttpIdle
    /\ http' = IF http.state = "Pending"
                 THEN [http EXCEPT !.state = "Running", !.transports = <<>>,
                                   !.call = Some([todo |-> http.transports,
                                                  transport |-> None])]
                 ELSE HttpReturn([http EXCEPT !.state = "Invalid"], "start",
                                 Err("invalid state"))
    /\ UNCHANGED <<execVars, hdrVars, h1Vars, tlsVars>>

\* HttpRunner::start up to its first await: the state is replaced by Running;
\* a runner that was not Pending bails.
HttpStart ==
    /\ HttpIdle
    /\ http' = IF http.state = "Pending"
                 THEN [http EXCEPT !.state = "Running", !.transports = <<>>,
                                   !.call = Some([todo |-> http.transports,
                                                  transport |-> None])]
                 ELSE HttpReturn([http EXCEPT !.state = "Running"], "start",
                                 Err("invalid state"))
    /\ UNCHANGED <<execVars, hdrVars, h1Vars, tlsVars>>

\* A variant of the loop step below that goes on after a failed start.
HttpTransportStartUnchecked(ok) ==
    /\ http.call # None /\ Unwrap(http.call).todo # <<>>
    /\ LET c == Unwrap(http.call)
           t == Head(c.todo)
       IN  http' = [http EXCEPT
                      !.log = Append(@, [layer |-> t, inner |-> c.transport, ok |-> ok]),
                      !.call = Some([todo |-> Tail(c.todo), transport |-> Some(t)])]
    /\ UNCHANGED <<execVars, hdrVars, h1Vars, tlsVars>>

\* start(): one turn of `for mut t in transports { t.start(transport, 1).await?;
\* transport = Some(t); }`.
HttpTransportStart(ok) ==
    /\ http.call # None /\ Unwrap(http.call).todo # <<>>
    /\ LET c == Unwrap(http.call)
           t == Head(c.todo)
           logged == [http EXCEPT
                        !.log = Append(@, [layer |-> t, inner |-> c.transport, ok |-> ok])]
       IN  http' = IF ok
                     THEN [logged EXCEPT !.call = Some([todo |-> Tail(c.todo),
                                                        transport |-> Some(t)])]
                     ELSE HttpReturn(logged, "start", Err("transport start"))
    /\ UNCHANGED <<execVars, hdrVars, h1Vars, tlsVars>>

\* start(): after the loop, the HTTP/1 runner is started with the last transport.
HttpInnerStart(ok) ==
    /\ http.call # None /\ Unwrap(http.call).todo = <<>>
    /\ LET c == Unwrap(http.call)
       IN  /\ c.transport # None
           /\ http' = HttpReturn(
                  [http EXCEPT !.log = Append(@, [layer |-> "Http1",
                                                   inner |-> c.transport, ok |-> ok])],
                  "start", IF ok THEN Ok(0) ELSE Err("http1 start"))
    /\ UNCHANGED <<execVars, hdrVars, h1Vars, tlsVars>>

\* HttpRunner::execute hands over to the HTTP/1 runner, whatever the state.
HttpExecute ==
    /\ HttpIdle
    /\ http' = HttpReturn(http, "execute", Ok(0))
    /\ UNCHANGED <<execVars, hdrVars, h1Vars, tlsVars>>

HttpNext ==
    \/ HttpStart
    \/ \E ok \in BOOLEAN : HttpTransportStart(ok)
    \/ \E ok \in BOOLEAN : HttpInnerStart(ok)
    \/ HttpExecute

SpecHttp == HttpInit /\ [][HttpNext]_vars

(***************************************************************************)
(* HTTP runner: the claims.                                                *)
(***************************************************************************)
\* The stack of transports for a scheme, lowest first.
ExpectedStack(scheme) ==
    IF scheme = "https" THEN <<"RawTcp", "Tcp", "Tls">> ELSE <<"RawTcp", "Tcp">>

\* C22: start() starts the transports bottom-up, RawTcp, Tcp, then Tls iff the
\* scheme is https, each with the previously started one as its inner; the
\* HTTP/1 runner is started after all of them; nothing is started after a
\* start that failed.
C22_TransportsStartBottomUp ==
    LET st == ExpectedStack(http.scheme)
    IN  \A i \in 1..Len(http.log) :
            /\ i <= Len(st) + 1
            /\ i <= Len(st) =>
                 /\ http.log[i].layer = st[i]
                 /\ http.log[i].inner = IF i = 1 THEN None ELSE Some(st[i - 1])
            /\ i = Len(st) + 1 =>
                 /\ http.log[i].layer = "Http1"
                 /\ http.log[i].inner = Some(st[Len(st)])
            /\ i > 1 => http.log[i - 1].ok

C22_Witness ==
    /\ http.scheme = "https"
    /\ Len(http.log) = 4
    /\ http.log[4].layer = "Http1"

\* A call of start() on a runner that has been started before returns in this step.
LaterStartReturns ==
    /\ http.state # "Pending" /\ http.call = None
    /\ Len(http'.returns) = Len(http.returns) + 1
    /\ http'.returns[Len(http'.returns)].op = "start"

\* C29: start() takes effect at most once: the first call moves the runner
\* from Pending to Running; every later call, whatever the first one's
\* outcome, returns the "invalid state" error, starts nothing and leaves the
\* state Running, never Invalid.
C29_StartTakesEffectOnce ==
    [][/\ http'.state # "Invalid"
       /\ (http.state = "Pending" /\ http'.call # None) => http'.state = "Running"
       /\ LaterStartReturns =>
            /\ http'.returns[Len(http'.returns)].ret = Err("invalid state")
            /\ http'.log = http.log
            /\ http'.state = "Running"]_vars

C29_Witness ==
    /\ Len(http.returns) = 2
    /\ http.returns[1] = [op |-> "start", ret |-> Err("transport start")]
    /\ http.returns[2] = [op |-> "start", ret |-> Err("invalid state")]


(***************************************************************************)
(*                              TLS RUNNER                                 *)
(* TLSRunner of src/exec/tls.rs: new() and execute() as one task on a      *)
(* single-threaded runtime, next to a sibling task.  The task gives the    *)
(* thread back at each await; std::thread::sleep keeps it.                 *)
(***************************************************************************)
MaxPauses == 2      \* entries of req.pause
MaxSibling == 2     \* steps of the sibling task

PauseNames == {"open", "request_body", "other"}
PauseDurations == {1, 2}
TlsPauseLists ==
    UNION {[1..n -> [after : PauseNames, duration : PauseDurations]] : n \in 0..MaxPauses}

\* req.pause.iter().find(|p| p.after == name): the index of the first match.
find(pause, name) ==
    LET hits == {i \in 1..Len(pause) : pause[i].after = name}
    IN  IF hits = {} THEN None
        ELSE Some(CHOOSE i \in hits : \A j \in hits : i <= j)

TlsEvent(ev, p) == [ev |-> ev, p |-> p]

\* The task at the first await of new(): the handshake.
TlsNew(pause) ==
    [pause |-> pause,
     pc |-> "handshake",
     \* the pause the thread is sleeping in, by its index in req.pause
     sleeping |-> None,
     \* what the runner has done, in order
     log |-> <<>>,
     \* steps the sibling task has taken
     sibling |-> 0]

TlsInit ==
    /\ tls \in {TlsNew(ps) : ps \in TlsPauseLists}
    /\ http = None
    /\ IdleExecutor /\ IdleHeader /\ IdleRunner

\* `if let Some(p) = pause.iter().find(..) { std::thread::sleep(..) }`: the
\* thread sleeps in the pause found, or the task goes on to `next`.
pause_after(r, name, next) ==
    LET p == find(r.pause, name)
    IN  IF p = None THEN [r EXCEPT !.pc = next]
        ELSE [r EXCEPT !.pc = next, !.sleeping = p,
                       !.log = Append(@, TlsEvent("pause", Unwrap(p)))]

\* new(): connect(..).await returns; on success the "open" pause follows in
\* the same poll.
TlsHandshake(ok) ==
    /\ tls.pc = "handshake" /\ tls.sleeping = None
    /\ tls' = IF ok
                THEN pause_after([tls EXCEPT !.log = Append(@, TlsEvent("handshake", 0))],
                                 "open", "write")
                ELSE [tls EXCEPT !.pc = "failed"]
    /\ UNCHANGED <<execVars, hdrVars, h1Vars, httpVars>>

\* std::thread::sleep returns.
TlsWake ==
    /\ tls.sleeping # None
    /\ tls' = [tls EXCEPT !.sleeping = None]
    /\ UNCHANGED <<execVars, hdrVars, h1Vars, httpVars>>

\* execute(): write_all(&self.req.body).await returns.
TlsWrite(ok) ==
    /\ tls.pc = "write" /\ tls.sleeping = None
    /\ tls' = IF ok
                THEN [tls EXCEPT !.pc = "flush", !.log = Append(@, TlsEvent("write", 0))]
                ELSE [tls EXCEPT !.pc = "failed"]
    /\ UNCHANGED <<execVars, hdrVars, h1Vars, httpVars>>

\* execute(): flush().await returns; on success the "request_body" pause
\* follows in the same poll.
TlsFlush(ok) ==
    /\ tls.pc = "flush" /\ tls.sleeping = None
    /\ tls' = IF ok
                THEN pause_after([tls EXCEPT !.log = Append(@, TlsEvent("flush", 0))],
                                 "request_body", "read")
                ELSE [tls EXCEPT !.pc = "failed"]
    /\ UNCHANGED <<execVars, hdrVars, h1Vars, httpVars>>

\* execute(): read_to_end(&mut response).await returns.
TlsRead(ok) ==
    /\ tls.pc = "read" /\ tls.sleeping = None
    /\ tls' = IF ok
                THEN [tls EXCEPT !.pc = "done", !.log = Append(@, TlsEvent("read", 0))]
                ELSE [tls EXCEPT !.pc = "failed"]
    /\ UNCHANGED <<execVars, hdrVars, h1Vars, httpVars>>

\* The runtime polls the sibling task: possible only while the thread is not
\* held by the runner.
SiblingStep ==
    /\ tls.sleeping = None
    /\ tls.sibling < MaxSibling
    /\ tls' = [tls EXCEPT !.sibling = @ + 1]
    /\ UNCHANGED <<execVars, hdrVars, h1Vars, httpVars>>

TlsNext ==
    \/ \E ok \in BOOLEAN : TlsHandshake(ok)
    \/ TlsWake
    \/ \E ok \in BOOLEAN : TlsWrite(ok)
    \/ \E ok \in BOOLEAN : TlsFlush(ok)
    \/ \E ok \in BOOLEAN : TlsRead(ok)
    \/ SiblingStep

SpecTls == TlsInit /\ [][TlsNext]_vars

(***************************************************************************)
(* TLS runner: the claims.                                                 *)
(***************************************************************************)
Logged(ev) == {k \in 1..Len(tls.log) : tls.log[k].ev = ev}

PauseEventsOf(i) == {k \in Logged("pause") : tls.log[k].p = i}

\* C23: a pause named "open" takes place after the handshake and before any
\* application byte is written; a pause named "request_body" takes place
\* after the body has been written and flushed and before the first response
\* read; a pause with any other name causes no suspension.
C23_PausesTakePlaceAtTheirPoints ==
    \A i \in 1..Len(tls.pause) :
        /\ tls.pause[i].after = "open" =>
             /\ \A k \in PauseEventsOf(i) :
                    /\ \E h \in Logged("handshake") : h < k
                    /\ \A w \in Logged("write") : k < w
             /\ Logged("write") # {} => PauseEventsOf(i) # {}
        /\ tls.pause[i].after = "request_body" =>
             /\ \A k \in PauseEventsOf(i) :
                    /\ \E f \in Logged("flush") : f < k
                    /\ \E w \in Logged("write") : w < k
                    /\ \A r \in Logged("read") : k < r
             /\ Logged("read") # {} => PauseEventsOf(i) # {}
        /\ tls.pause[i].after \notin {"open", "request_body"} => PauseEventsOf(i) = {}

\* C24: while a pause is in progress the sibling task can take a step.
C24_SiblingCanStepDuringPause ==
    (tls.sleeping # None /\ tls.sibling < MaxSibling) => ENABLED SiblingStep

====
